---- MODULE Spec2Model ----
(***************************************************************************)
(* Model of the two browser scripts of YouPS:                              *)
(*   youps/history_table.js  - the history view: poll /fetch_execution_log *)
(*                             every 2s, render new log rows, "load more"  *)
(*   murmur/login_imap.js    - the editor view: its own 5s poller          *)
(*                             and the mode tabs (add, close, run)         *)
(* A page session runs exactly one of the two scripts (variable page).     *)
(*                                                                         *)
(* Timestamp keys are modelled as the naturals 1..MaxKey; the order of the *)
(* naturals stands for the string order JavaScript uses on the keys.       *)
(* A snapshot payload is the sequence of its keys in Object.keys order.    *)
(***************************************************************************)
EXTENDS Naturals, Integers, Sequences, FiniteSets, TLC

\* ---- bounds ----
MaxKey == 12
MaxFirstKey == 1
MaxTicks == 3
MaxClicks == 2
MaxNoFrom == 1
MaxEditorEvents == 3

\* ---- program constants ----
\* history_table.js:87  .slice(-10)
RecentCap == 10

VARIABLES
  page,                \* which script this page session runs
  noFrom,              \* keys of the log entries that carry no from_ record
  engine,              \* what Array.prototype.sort does with a boolean comparator
  timer,               \* history view: pending calls of fetch_log (setTimeout)
  inflight,            \* history view: outstanding $.post requests
  log_backup,          \* history_table.js global
  user_status_backup,  \* history_table.js global
  rows,                \* rows of #console-table, in row.add order
  table_order,         \* current ordering of the DataTable
  handlers,            \* click handlers bound to #btn-log-load-more
  btn_visible,         \* #btn-log-load-more is shown
  running,             \* the "is running" indicator (set_running)
  status_display,      \* content of #user-status-msg
  ticks,               \* fetches issued so far
  clicks,              \* clicks on "load more" so far
  e_timer,             \* editor view: pending calls of fetch_log
  e_inflight,          \* editor view: outstanding $.post requests
  e_log_backup,        \* login_imap.js closure variable log_backup
  console,             \* editor view: paragraphs of #console
  alerts,              \* alert() boxes shown so far
  first_load,          \* the first-load render: its snapshot and the rows it added (observer)
  panels,              \* the Message objects handed to jsonpanel, one per rendered entry
  accepted,            \* a status true response has been processed to its end (observer)
  last,                \* what the last step did (observer)
  tabs,                \* editor view: the tab items of .nav-tabs, left to right
  panes,               \* editor view: the panes of .tab-content, in document order
  unsaved_tabs,        \* login_imap.js closure variable unsaved_tabs
  current_mode,        \* editor view: the mode-id attribute of the mode dropdown
  delete_requests,     \* editor view: outstanding /delete_mailbot_mode requests
  run_requests,        \* editor view: outstanding /run_mailbot requests
  e_running,           \* editor view: the submit button reads "Disable"
  e_clicks,            \* editor view: clicks of the user so far
  closed               \* what the last click on a tab's x did (observer)

vars == <<page, noFrom, engine, timer, inflight, log_backup, user_status_backup,
          rows, table_order, handlers, btn_visible, running, status_display,
          ticks, clicks, e_timer, e_inflight, e_log_backup, console, alerts,
          first_load, panels, accepted, last, tabs, panes, unsaved_tabs,
          current_mode, delete_requests, run_requests, e_running, e_clicks,
          closed>>

historyVars == <<timer, inflight, log_backup, user_status_backup, rows,
                 table_order, handlers, btn_visible, running, status_display,
                 clicks, first_load, panels, accepted>>

editorVars == <<e_timer, e_inflight, e_log_backup, console>>

tabVars == <<tabs, panes, unsaved_tabs, current_mode, delete_requests,
             run_requests, e_running, e_clicks, closed>>

\* ---- sequences ----
Range(s) == {s[i] : i \in 1..Len(s)}

\* $(a).not(b).get(): the elements of a that are not in b, in the order of a
SeqMinus(a, b) == SelectSeq(a, LAMBDA x : x \notin Range(b))

\* arr.slice(-n)
SliceLast(s, n) == IF Len(s) <= n THEN s ELSE SubSeq(s, Len(s) - n + 1, Len(s))

RECURSIVE InsertSorted(_, _)
InsertSorted(s, x) ==
  IF s = <<>> THEN <<x>>
  ELSE IF x < Head(s) THEN <<x>> \o s
  ELSE <<Head(s)>> \o InsertSorted(Tail(s), x)

\* arr.sort() with the default comparator: ascending
RECURSIVE SortAscending(_)
SortAscending(s) ==
  IF s = <<>> THEN <<>>
  ELSE InsertSorted(SortAscending(Tail(s)), Head(s))

\* the keys lo..hi listed oldest first, and listed newest first
Ascending(lo, hi) == [i \in 1..(hi + 1 - lo) |-> lo + i - 1]
Descending(lo, hi) == [i \in 1..(hi + 1 - lo) |-> hi + 1 - i]

\* ---- what the server can answer ----
\* res['imap_log'] of the history view: '' (nothing logged yet), null, absent,
\* a string that is not JSON, or the JSON text of a snapshot whose keys are
\* listed in the order keys
EmptyString == [kind |-> "empty", keys |-> <<>>]
NullLog == [kind |-> "null", keys |-> <<>>]
AbsentLog == [kind |-> "absent", keys |-> <<>>]
BadLog == [kind |-> "bad", keys |-> <<>>]
JsonLog(s) == [kind |-> "json", keys |-> s]

\* snapshot sizes: none, one or two entries, and more entries than the cap
SnapSizes == {0, 1, 2, MaxKey}
Windows == {w \in (1..MaxFirstKey) \X (0..MaxKey) : (w[2] + 1 - w[1]) \in SnapSizes}
Snapshots == {Ascending(w[1], w[2]) : w \in Windows} \cup
             {Descending(w[1], w[2]) : w \in Windows}
LogPayloads == {EmptyString, NullLog, AbsentLog, BadLog} \cup {JsonLog(s) : s \in Snapshots}

\* res['user_status_msg']: idle, blank, or a message
StatusMsgs == {"", " ", "run"}

\* res['imap_log'] of the editor view is plain text
TextLogs == {[kind |-> k, keys |-> <<>>] : k \in {"empty", "null", "text1", "text2"}}

FailureRes == [status |-> FALSE, imap_log |-> EmptyString, user_status_msg |-> ""]
Responses ==
  {FailureRes} \cup
  {[status |-> TRUE, imap_log |-> l, user_status_msg |-> m] : l \in LogPayloads, m \in StatusMsgs}
EditorResponses ==
  {FailureRes} \cup
  {[status |-> TRUE, imap_log |-> l, user_status_msg |-> ""] : l \in TextLogs}

\* $.trim
Trim(m) == IF m = " " THEN "" ELSE m

\* ---- observer ----
Obs(op, res, threw, added, wrote, notified, changed) ==
  [op |-> op, res |-> res, threw |-> threw, added |-> added, wrote |-> wrote,
   notified |-> notified, changed |-> changed]

\* ---- rescheduling ----
\* the setTimeout moved into the status true branch
ScheduleNextOnSuccessOnly(t, status, threw) == IF threw \/ ~status THEN t ELSE t + 1

\* history view, end of the success callback: setTimeout(fetch_log, 2 * 1000)
\* is reached unless the callback threw before it; status plays no part
ScheduleNext(t, status, threw) == IF threw THEN t ELSE t + 1

\* a .fail() handler that retries
AfterFailRetry(t) == t + 1

\* history view, .fail(): nothing is scheduled
AfterFail(t) == t

\* editor view: setTimeout(fetch_log, 5 * 1000) follows the $.post call itself
EditorScheduleNext(t) == t + 1

\* ---- history view: the entries ----
\* the fields of the entry with timestamp key k: the five internal fields,
\* from_ unless the entry is in noFrom, and domain fields that vary by entry
EntryFields(k) ==
  {"trigger", "error", "log", "timestamp", "type", "subject"}
    \cup (IF k \in noFrom THEN {} ELSE {"from_"})
    \cup (IF k % 2 = 1 THEN {"folder"} ELSE {"flags"})

\* the date part of the timestamp key, timestamp.split(",")[0]: the keys
\* 2d-1 and 2d are two times of the same day d
DateOf(k) == (k + 1) \div 2

\* delete Message[...] with one statement left out
StripInternalButType(fields) ==
  (((fields \ {"trigger"}) \ {"error"}) \ {"log"}) \ {"timestamp"}

\* delete Message["trigger"]; ... delete Message["type"];
StripInternal(fields) ==
  ((((fields \ {"trigger"}) \ {"error"}) \ {"log"}) \ {"timestamp"}) \ {"type"}

\* ---- history view: append_log ----
\* Object.keys(msg_log).sort(function(a, b) {return a>b;}): the comparator
\* answers true/false, never a negative number, so the result depends on the
\* engine: engines that only test "> 0" sort ascending, engines that test
\* "< 0" (V8 since 7.0) leave the array as it is
BoolCompareSort(s) == IF engine = "ascending" THEN SortAscending(s) ELSE s

\* index in sorted of the first entry without from_, 0 when there is none
FirstNoFrom(sorted) ==
  IF \E i \in 1..Len(sorted) : sorted[i] \in noFrom
  THEN CHOOSE i \in 1..Len(sorted) :
         /\ sorted[i] \in noFrom
         /\ \A j \in 1..(i - 1) : sorted[j] \notin noFrom
  ELSE 0

\* append_log throws at Message['from_']['name'] when from_ is missing
AppendLogThrows(batch) == FirstNoFrom(SortAscending(batch)) # 0

\* the rows append_log adds: the keys in sorted order, up to and including the
\* entry at which it throws (t.row.add comes before the contact preview)
AppendLogRows(batch) ==
  LET sorted == SortAscending(batch)
      i == FirstNoFrom(sorted)
  IN IF i = 0 THEN sorted ELSE SubSeq(sorted, 1, i)

\* the Message panels append_log builds: one per entry that got past the
\* contact preview, holding the entry's fields after the deletes
AppendLogPanels(batch) ==
  LET sorted == SortAscending(batch)
      i == FirstNoFrom(sorted)
      done == IF i = 0 THEN sorted ELSE SubSeq(sorted, 1, i - 1)
  IN [j \in 1..Len(done) |-> [key |-> done[j], fields |-> StripInternal(EntryFields(done[j]))]]

\* DataTable().order([0, 'des']).draw(): rows by descending first column
\* (the date part), rows of equal date in the order they were added.
\* Before the first order() call the table is ordered by its trigger column,
\* which ties for labels that are all alike.
RECURSIVE InsertByDate(_, _)
InsertByDate(s, k) ==
  IF s = <<>> THEN <<k>>
  ELSE IF DateOf(k) > DateOf(Head(s)) THEN <<k>> \o s
  ELSE <<Head(s)>> \o InsertByDate(Tail(s), k)

RECURSIVE SortByDateDescending(_)
SortByDateDescending(s) ==
  IF s = <<>> THEN <<>>
  ELSE InsertByDate(SortByDateDescending(SubSeq(s, 1, Len(s) - 1)), s[Len(s)])

DisplayOrder(rws, order) == IF order = "col0_des" THEN SortByDateDescending(rws) ELSE rws

\* ---- history view: fetch_log ----
\* log_backup != res['imap_log'] with every payload taken for changed
LogChangedAlways(backup, log) == TRUE

\* log_backup != res['imap_log']
LogChanged(backup, log) == backup # log

\* first-load test that also takes an empty snapshot for "nothing loaded yet"
IsFirstLoadOrEmpty(backup) == backup.keys = <<>>

\* log_backup == ''
IsFirstLoad(backup) == backup = EmptyString

\* fetch_log() is called: the POST goes out
HFetch ==
  /\ page = "history"
  /\ timer > 0
  /\ ticks < MaxTicks
  /\ timer' = timer - 1
  /\ inflight' = inflight + 1
  /\ ticks' = ticks + 1
  /\ last' = Obs("fetch", FailureRes, FALSE, <<>>, FALSE, FALSE, FALSE)
  /\ UNCHANGED <<page, noFrom, engine, log_backup, user_status_backup, rows,
                 table_order, handlers, btn_visible, running, status_display,
                 clicks, alerts, first_load, panels, accepted>>
  /\ UNCHANGED editorVars
  /\ UNCHANGED tabVars

\* the success callback of $.post
HResponse(res) ==
  /\ page = "history"
  /\ inflight > 0
  /\ inflight' = inflight - 1
  /\ IF res.status
     THEN
       LET changed == LogChanged(log_backup, res.imap_log)
           parseThrows == res.imap_log.kind \in {"absent", "bad", "empty"}
           isNull == res.imap_log.kind = "null"
           first == IsFirstLoad(log_backup)
           keys == res.imap_log.keys
           recent_keys == SliceLast(BoolCompareSort(keys), RecentCap)
           batch == IF first THEN recent_keys ELSE SeqMinus(keys, log_backup.keys)
           reachesAppend == changed /\ ~parseThrows /\ ~isNull
           threw == changed /\ (parseThrows \/ isNull \/ AppendLogThrows(batch))
           added == IF reachesAppend THEN AppendLogRows(batch) ELSE <<>>
           msg == res.user_status_msg
           wrote == ~threw /\ user_status_backup # msg
       IN /\ rows' = rows \o added
          /\ panels' = IF reachesAppend THEN panels \o AppendLogPanels(batch) ELSE panels
          /\ accepted' = (accepted \/ ~threw)
          /\ table_order' = IF reachesAppend /\ ~threw THEN "col0_des" ELSE table_order
          /\ handlers' = IF reachesAppend /\ ~threw /\ first
                         THEN Append(handlers, [initial |-> keys, recent |-> recent_keys])
                         ELSE handlers
          /\ btn_visible' = IF reachesAppend /\ ~threw /\ first THEN TRUE ELSE btn_visible
          /\ first_load' = IF reachesAppend /\ first
                           THEN [done |-> TRUE, snapshot |-> keys, added |-> added]
                           ELSE first_load
          /\ log_backup' = IF threw THEN log_backup ELSE res.imap_log
          /\ running' = IF threw THEN running ELSE Trim(msg) # ""
          /\ status_display' = IF wrote THEN msg ELSE status_display
          /\ user_status_backup' = IF threw THEN user_status_backup ELSE msg
          /\ timer' = ScheduleNext(timer, TRUE, threw)
          /\ last' = Obs("response", res, threw, added, wrote, FALSE, changed)
     ELSE
       /\ timer' = ScheduleNext(timer, FALSE, FALSE)
       /\ last' = Obs("response", res, FALSE, <<>>, FALSE, TRUE, FALSE)
       /\ UNCHANGED <<log_backup, user_status_backup, rows, table_order, handlers,
                      btn_visible, running, status_display, first_load, panels,
                      accepted>>
  /\ UNCHANGED <<page, noFrom, engine, ticks, clicks, alerts>>
  /\ UNCHANGED editorVars
  /\ UNCHANGED tabVars

\* .fail(): alert("Please refresh the page!"), nothing is scheduled
HFail ==
  /\ page = "history"
  /\ inflight > 0
  /\ inflight' = inflight - 1
  /\ alerts' = alerts + 1
  /\ timer' = AfterFail(timer)
  /\ last' = Obs("fail", FailureRes, FALSE, <<>>, FALSE, FALSE, FALSE)
  /\ UNCHANGED <<page, noFrom, engine, log_backup, user_status_backup, rows,
                 table_order, handlers, btn_visible, running, status_display,
                 ticks, clicks, first_load, panels, accepted>>
  /\ UNCHANGED editorVars
  /\ UNCHANGED tabVars

\* ---- history view: the "load more" button ----
\* jQuery runs the bound handlers in order; a handler that throws ends the
\* dispatch and never reaches $(this).hide()
RECURSIVE RunHandlers(_, _)
RunHandlers(hs, acc) ==
  IF hs = <<>> THEN acc
  ELSE LET h == Head(hs)
           rest_key == SeqMinus(h.initial, h.recent)
           added == acc.added \o AppendLogRows(rest_key)
           built == acc.panels \o AppendLogPanels(rest_key)
       IN IF AppendLogThrows(rest_key)
          THEN [added |-> added, panels |-> built, threw |-> TRUE,
                visible |-> acc.visible, completed |-> acc.completed]
          ELSE RunHandlers(Tail(hs),
                 [added |-> added, panels |-> built, threw |-> FALSE,
                  visible |-> FALSE, completed |-> TRUE])

LoadMoreClick ==
  /\ page = "history"
  /\ btn_visible
  /\ clicks < MaxClicks
  /\ LET r == RunHandlers(handlers,
                [added |-> <<>>, panels |-> <<>>, threw |-> FALSE,
                 visible |-> btn_visible, completed |-> FALSE])
     IN /\ rows' = rows \o r.added
        /\ panels' = panels \o r.panels
        /\ btn_visible' = r.visible
        /\ table_order' = IF r.completed THEN "col0_des" ELSE table_order
        /\ last' = Obs("click", FailureRes, r.threw, r.added, FALSE, FALSE, FALSE)
  /\ clicks' = clicks + 1
  /\ UNCHANGED <<page, noFrom, engine, timer, inflight, log_backup,
                 user_status_backup, handlers, running, status_display, ticks,
                 alerts, first_load, accepted>>
  /\ UNCHANGED editorVars
  /\ UNCHANGED tabVars

\* ---- editor view: fetch_log ----
\* fetch_log() is called: the POST goes out and the next call is scheduled at
\* once, outside the response callback
EFetch ==
  /\ page = "editor"
  /\ e_timer > 0
  /\ ticks < MaxTicks
  /\ ticks + e_clicks < MaxEditorEvents
  /\ e_inflight' = e_inflight + 1
  /\ e_timer' = EditorScheduleNext(e_timer - 1)
  /\ ticks' = ticks + 1
  /\ last' = Obs("fetch", FailureRes, FALSE, <<>>, FALSE, FALSE, FALSE)
  /\ UNCHANGED <<page, noFrom, engine, clicks, e_log_backup, console, alerts>>
  /\ UNCHANGED historyVars
  /\ UNCHANGED tabVars

\* append_log of login_imap.js: if(!log) return, else one paragraph is put
\* in front of #console
EditorAppendLog(con, log) ==
  IF log.kind \in {"null", "empty"} THEN con ELSE <<log.kind>> \o con

EResponse(res) ==
  /\ page = "editor"
  /\ e_inflight > 0
  /\ e_inflight' = e_inflight - 1
  /\ IF res.status
     THEN /\ console' = IF e_log_backup # res.imap_log
                        THEN EditorAppendLog(<<>>, res.imap_log)
                        ELSE console
          /\ e_log_backup' = res.imap_log
          /\ last' = Obs("response", res, FALSE, <<>>, FALSE, FALSE, e_log_backup # res.imap_log)
     ELSE /\ last' = Obs("response", res, FALSE, <<>>, FALSE, TRUE, FALSE)
          /\ UNCHANGED <<console, e_log_backup>>
  /\ UNCHANGED <<page, noFrom, engine, ticks, clicks, e_timer, alerts>>
  /\ UNCHANGED historyVars
  /\ UNCHANGED tabVars

\* the request fails: $.post has no .fail() handler in the editor view
EFail ==
  /\ page = "editor"
  /\ e_inflight > 0
  /\ e_inflight' = e_inflight - 1
  /\ last' = Obs("fail", FailureRes, FALSE, <<>>, FALSE, FALSE, FALSE)
  /\ UNCHANGED <<page, noFrom, engine, ticks, clicks, e_timer, e_log_backup, console, alerts>>
  /\ UNCHANGED historyVars
  /\ UNCHANGED tabVars

\* ---- editor view: tabs and modes ----
\* the tabs the page is rendered with: the saved modes, ids 1 and up, none
\* of them added in this session
InitialTabs ==
  {[i \in 1..n |-> [id |-> i, fresh |-> FALSE]] : n \in {1, 2}}

\* Math.max.apply(null, []) is -Infinity and -Infinity + 1 is -Infinity; the
\* ids the server hands out are positive, so -1 stands for -Infinity
NegInfinity == -1

\* Math.max.apply(null, modes_keys)
MaxOf(S) == IF S = {} THEN NegInfinity ELSE CHOOSE m \in S : \A y \in S : y <= m

\* the + 1 of the new id
PlusOne(x) == IF x = NegInfinity THEN NegInfinity ELSE x + 1

\* a JavaScript number
Num(v) == [type |-> "number", val |-> v]

\* a JavaScript string holding the digits of v
Str(v) == [type |-> "string", val |-> v]

\* Array.prototype.includes compares with SameValueZero: same type, same value
Includes(arr, x) == x \in arr

RemoveAt(s, i) == [j \in 1..(Len(s) - 1) |-> IF j < i THEN s[j] ELSE s[j + 1]]

\* $('#editor-tab_<id>') and document.getElementById('editor-<id>'): the first
\* pane of that id in document order, 0 when there is none
FirstPane(ps, id) ==
  IF \E i \in 1..Len(ps) : ps[i].id = id
  THEN CHOOSE i \in 1..Len(ps) : ps[i].id = id /\ \A j \in 1..(i - 1) : ps[j].id # id
  ELSE 0

\* get_modes(): one key per pane that holds a CodeMirror editor
GetModes(ps) == {ps[i].id : i \in {j \in 1..Len(ps) : ps[j].editor}}

\* get_current_mode() reads the editor of the pane of the dropdown's mode-id;
\* querySelector gives null, and the read throws, when no such pane has one
GetCurrentModeThrows(ps, cur) == cur \notin GetModes(ps)

\* the click handler of .add-contact: a tab item and a pane of the new id,
\* the id pushed to unsaved_tabs as a number, and a CodeMirror editor put on
\* the first textarea of that id. fresh marks a tab added in this session and
\* not sent in a successful /run_mailbot since (observer)
AddContact(ts, ps, unsaved) ==
  LET id == PlusOne(MaxOf(GetModes(ps)))
      ps1 == Append(ps, [id |-> id, editor |-> FALSE])
  IN [tabs |-> Append(ts, [id |-> id, fresh |-> TRUE]),
      panes |-> [ps1 EXCEPT ![FirstPane(ps1, id)].editor = TRUE],
      unsaved |-> unsaved \cup {Num(id)}]

\* the user clicks the "add tab" control
AddTab ==
  /\ page = "editor"
  /\ ticks + e_clicks < MaxEditorEvents
  /\ LET r == AddContact(tabs, panes, unsaved_tabs)
     IN /\ tabs' = r.tabs
        /\ panes' = r.panes
        /\ unsaved_tabs' = r.unsaved
  /\ e_clicks' = e_clicks + 1
  /\ last' = Obs("add", FailureRes, FALSE, <<>>, FALSE, FALSE, FALSE)
  /\ UNCHANGED <<page, noFrom, engine, ticks, clicks, alerts, current_mode,
                 delete_requests, run_requests, e_running, closed>>
  /\ UNCHANGED historyVars
  /\ UNCHANGED editorVars

\* the user clicks the x of the i-th tab: its pane and its item are removed,
\* the first anchor left in .nav-tabs is clicked (the "add tab" anchor when
\* no tab is left, which runs its handler), then the mode id is read from the
\* href as a string and delete_mode is called unless unsaved_tabs includes it
CloseTab(i) ==
  /\ page = "editor"
  /\ ticks + e_clicks < MaxEditorEvents
  /\ i \in 1..Len(tabs)
  /\ LET t == tabs[i]
         p == FirstPane(panes, t.id)
         ps1 == IF p = 0 THEN panes ELSE RemoveAt(panes, p)
         ts1 == RemoveAt(tabs, i)
         r == IF ts1 = <<>>
              THEN AddContact(ts1, ps1, unsaved_tabs)
              ELSE [tabs |-> ts1, panes |-> ps1, unsaved |-> unsaved_tabs]
         mode_id == Str(t.id)
         sent == IF ~Includes(r.unsaved, mode_id) THEN <<mode_id.val>> ELSE <<>>
     IN /\ tabs' = r.tabs
        /\ panes' = r.panes
        /\ unsaved_tabs' = r.unsaved
        /\ delete_requests' = delete_requests \o sent
        /\ closed' = [tab |-> t, sent |-> sent]
  /\ e_clicks' = e_clicks + 1
  /\ last' = Obs("close", FailureRes, FALSE, <<>>, FALSE, FALSE, FALSE)
  /\ UNCHANGED <<page, noFrom, engine, ticks, clicks, alerts, current_mode,
                 run_requests, e_running>>
  /\ UNCHANGED historyVars
  /\ UNCHANGED editorVars

\* what the server can answer to /delete_mailbot_mode
DeleteResponses == [status : BOOLEAN]

\* the success callback of delete_mode
DeleteResponse(i, res) ==
  /\ page = "editor"
  /\ i \in 1..Len(delete_requests)
  /\ delete_requests' = RemoveAt(delete_requests, i)
  /\ LET threw == res.status /\ GetCurrentModeThrows(panes, current_mode)
     IN /\ e_running' = IF res.status /\ ~threw /\ delete_requests[i] = current_mode
                        THEN FALSE
                        ELSE e_running
        /\ last' = Obs("deleted", FailureRes, threw, <<>>, FALSE, ~res.status, FALSE)
  /\ UNCHANGED <<page, noFrom, engine, ticks, clicks, alerts, tabs, panes,
                 unsaved_tabs, current_mode, run_requests, e_clicks, closed>>
  /\ UNCHANGED historyVars
  /\ UNCHANGED editorVars

\* run_code(is_dry_run, is_running): get_current_mode(), get_modes(), then
\* the POST of /run_mailbot
RunCode(ps, cur, is_running) ==
  IF GetCurrentModeThrows(ps, cur)
  THEN <<>>
  ELSE <<[is_running |-> is_running, modes |-> GetModes(ps)]>>

\* the user clicks the submit button (is_running is the opposite of the
\* button's state) or the save button (is_running is the button's state)
ClickRun(is_running) ==
  /\ page = "editor"
  /\ ticks + e_clicks < MaxEditorEvents
  /\ run_requests' = run_requests \o RunCode(panes, current_mode, is_running)
  /\ e_clicks' = e_clicks + 1
  /\ last' = Obs("run", FailureRes, GetCurrentModeThrows(panes, current_mode),
                 <<>>, FALSE, FALSE, FALSE)
  /\ UNCHANGED <<page, noFrom, engine, ticks, clicks, alerts, tabs, panes,
                 unsaved_tabs, current_mode, delete_requests, e_running, closed>>
  /\ UNCHANGED historyVars
  /\ UNCHANGED editorVars

\* the user picks a mode in the dropdown, which lists get_modes(): the
\* dropdown's mode-id is set and run_code is called with the button's state
SelectMode(id) ==
  /\ page = "editor"
  /\ ticks + e_clicks < MaxEditorEvents
  /\ id \in GetModes(panes)
  /\ current_mode' = id
  /\ run_requests' = run_requests \o RunCode(panes, id, e_running)
  /\ e_clicks' = e_clicks + 1
  /\ last' = Obs("select", FailureRes, FALSE, <<>>, FALSE, FALSE, FALSE)
  /\ UNCHANGED <<page, noFrom, engine, ticks, clicks, alerts, tabs, panes,
                 unsaved_tabs, delete_requests, e_running, closed>>
  /\ UNCHANGED historyVars
  /\ UNCHANGED editorVars

\* what the server can answer to /run_mailbot
RunResponses ==
  [status : BOOLEAN, imap_error : BOOLEAN, imap_log : {[kind |-> "text1", keys |-> <<>>]}]

\* the success callback of run_code
RunResponse(i, res) ==
  /\ page = "editor"
  /\ i \in 1..Len(run_requests)
  /\ run_requests' = RemoveAt(run_requests, i)
  /\ IF res.status
     THEN /\ unsaved_tabs' = {}
          /\ tabs' = [j \in 1..Len(tabs) |->
                        IF tabs[j].id \in run_requests[i].modes
                        THEN [tabs[j] EXCEPT !.fresh = FALSE]
                        ELSE tabs[j]]
          /\ console' = EditorAppendLog(console, res.imap_log)
          /\ e_running' = IF res.imap_error THEN FALSE ELSE run_requests[i].is_running
     ELSE UNCHANGED <<unsaved_tabs, tabs, console, e_running>>
  /\ last' = Obs("ran", FailureRes, FALSE, <<>>, FALSE, TRUE, FALSE)
  /\ UNCHANGED <<page, noFrom, engine, ticks, clicks, alerts, panes,
                 current_mode, delete_requests, e_clicks, closed>>
  /\ UNCHANGED historyVars
  /\ UNCHANGED <<e_timer, e_inflight, e_log_backup>>

\* ---- specification ----
\* The state after the page has loaded: the globals hold '' (history_table.js
\* line 2, login_imap.js line 169), the table and the console are empty, the
\* "load more" button is hidden and has no handler, and the first call of
\* fetch_log is due (login_imap.js lines 175-176; the history page calls it
\* once on load). noFrom and engine are fixed for the session.
Init ==
  /\ page \in {"history", "editor"}
  /\ noFrom \in IF page = "history" THEN SUBSET (1..MaxNoFrom) ELSE {{}}
  /\ engine \in IF page = "history" THEN {"ascending", "unchanged"} ELSE {"ascending"}
  /\ timer = IF page = "history" THEN 1 ELSE 0
  /\ inflight = 0
  /\ log_backup = EmptyString
  /\ user_status_backup = ""
  /\ rows = <<>>
  /\ table_order = "col1_asc"
  /\ handlers = <<>>
  /\ btn_visible = FALSE
  /\ running = FALSE
  /\ status_display = ""
  /\ ticks = 0
  /\ clicks = 0
  /\ e_timer = IF page = "editor" THEN 1 ELSE 0
  /\ e_inflight = 0
  /\ e_log_backup = EmptyString
  /\ console = <<>>
  /\ alerts = 0
  /\ first_load = [done |-> FALSE, snapshot |-> <<>>, added |-> <<>>]
  /\ panels = <<>>
  /\ accepted = FALSE
  /\ last = Obs("init", FailureRes, FALSE, <<>>, FALSE, FALSE, FALSE)
  /\ tabs \in IF page = "editor" THEN InitialTabs ELSE {<<>>}
  /\ panes = [i \in 1..Len(tabs) |-> [id |-> tabs[i].id, editor |-> TRUE]]
  /\ unsaved_tabs = {}
  /\ current_mode \in IF page = "editor" THEN {tabs[i].id : i \in 1..Len(tabs)} ELSE {0}
  /\ delete_requests = <<>>
  /\ run_requests = <<>>
  /\ e_running = FALSE
  /\ e_clicks = 0
  /\ closed = [tab |-> [id |-> 0, fresh |-> FALSE], sent |-> <<>>]

Next ==
  \/ HFetch
  \/ \E res \in Responses : HResponse(res)
  \/ HFail
  \/ LoadMoreClick
  \/ EFetch
  \/ \E res \in EditorResponses : EResponse(res)
  \/ EFail
  \/ AddTab
  \/ \E i \in 1..Len(tabs) : CloseTab(i)
  \/ \E i \in 1..Len(delete_requests), res \in DeleteResponses : DeleteResponse(i, res)
  \/ \E is_running \in BOOLEAN : ClickRun(is_running)
  \/ \E id \in GetModes(panes) : SelectMode(id)
  \/ \E i \in 1..Len(run_requests), res \in RunResponses : RunResponse(i, res)

Spec == Init /\ [][Next]_vars


\* ---- vocabulary of the claims ----
NoDuplicates(s) == \A i, j \in 1..Len(s) : i # j => s[i] # s[j]

\* the n greatest elements of S
TopKeys(S, n) == {k \in S : Cardinality({j \in S : j > k}) < n}

\* the step is a success callback of the history view with status true and a
\* well-formed snapshot
SnapshotTick ==
  /\ page = "history"
  /\ last'.op = "response"
  /\ last'.res.status
  /\ last'.res.imap_log.kind = "json"

\* C1: no timestamp key is added to the table as a row more than once, over
\* any sequence of poll ticks and "load more" clicks. Stated for the sessions
\* in which every entry carries from_, where the renderer itself never fails.
C1_NoKeyRenderedTwice == noFrom = {} => NoDuplicates(rows)

\* C2: the first successful fetch that carries a log of n entries renders
\* exactly the min(10, n) entries with the greatest keys, whatever the order
\* in which the snapshot lists its keys. Stated for the sessions in which
\* every entry carries from_.
C2_FirstLoadShowsMostRecent ==
  [][(SnapshotTick /\ noFrom = {} /\ log_backup = EmptyString)
       => /\ NoDuplicates(last'.added)
          /\ Range(last'.added) = TopKeys(Range(last'.res.imap_log.keys), RecentCap)]_vars

\* C3: the first "load more" click renders exactly the keys of the first
\* snapshot that the first load did not render, none twice and none left
\* out, whenever the click happens.
C3_LoadMoreRendersRemainder ==
  [][(page = "history" /\ last'.op = "click" /\ clicks = 0)
       => /\ NoDuplicates(last'.added)
          /\ Range(last'.added) = Range(first_load.snapshot) \ Range(first_load.added)]_vars

\* C4: "load more" works at most once per page session: at most one handler
\* is ever bound, once clicked the button is never shown again, and a further
\* click adds no row.
C4_LoadMoreOnce ==
  [][/\ Len(handlers') <= 1
     /\ (clicks' >= 1 => ~btn_visible')
     /\ ((last'.op = "click" /\ clicks >= 1) => rows' = rows)]_vars

\* C5: a successful tick after first load whose snapshot has changed renders
\* exactly keys(snapshot) minus the keys already rendered. Stated for the
\* sessions in which every entry carries from_, and for the ticks at which
\* no key of the previous snapshot is still waiting behind "load more".
C5_TickRendersUnrenderedKeys ==
  [][(/\ SnapshotTick
      /\ noFrom = {}
      /\ log_backup.kind = "json"
      /\ log_backup # last'.res.imap_log
      /\ Range(log_backup.keys) \subseteq Range(rows))
       => Range(last'.added) = Range(last'.res.imap_log.keys) \ Range(rows)]_vars

\* C6: each poller has at most one fetch request outstanding at any time.
C6_OneOutstandingFetch == inflight <= 1 /\ e_inflight <= 1

C8_AppFailureKeepsPolling ==
  (last.op = "response" /\ ~last.res.status)
    => /\ last.notified
       /\ page = "history" => timer >= 1
       /\ page = "editor" => e_timer >= 1

\* a status false response handled by the history view after an earlier tick
C8_Witness ==
  /\ page = "history"
  /\ last.op = "response"
  /\ ~last.res.status
  /\ last.notified
  /\ ticks >= 2
  /\ timer = 1

\* C9: a status true response whose imap_log is null or absent is a no-op of
\* the history view: no row, no error out of the callback, next fetch scheduled.
C9_NullLogIsNoOp ==
  (/\ page = "history"
   /\ last.op = "response"
   /\ last.res.status
   /\ last.res.imap_log.kind \in {"null", "absent"})
    => (~last.threw /\ last.added = <<>> /\ timer >= 1)

\* C10: a status true response whose imap_log does not parse renders no row,
\* lets no error out of the callback, and the next fetch is scheduled.
C10_MalformedLogIsSkipped ==
  (/\ page = "history"
   /\ last.op = "response"
   /\ last.res.status
   /\ last.res.imap_log.kind = "bad")
    => (~last.threw /\ last.added = <<>> /\ timer >= 1)

\* the last step was a success callback of the history view with status true
\* and a well-formed snapshot that differs from the baseline
RenderedSnapshot ==
  /\ page = "history"
  /\ last.op = "response"
  /\ last.res.status
  /\ last.res.imap_log.kind = "json"
  /\ last.changed

\* C11: a batch with an entry that has no from_ is rendered all the same: no
\* error, the baseline is updated and the next fetch is scheduled.
C11_MissingFromDoesNotFailBatch ==
  (RenderedSnapshot /\ \E k \in Range(last.added) : k \in noFrom)
    => (~last.threw /\ log_backup = last.res.imap_log /\ timer >= 1)

\* C12: without a transport failure the history poller never stops: every
\* completed tick that got a status false answer or a well-formed snapshot
\* leaves the next fetch scheduled.
C12_TickIsFollowedByFetch ==
  (/\ page = "history"
   /\ last.op = "response"
   /\ last.res.status => last.res.imap_log.kind = "json")
    => timer >= 1

\* the step is a success callback of the history view
HistoryTick == page = "history" /\ last'.op = "response"

\* C13 as claimed: once a status true response has been processed, no later
\* tick goes through the first load again (cap, "load more" re-armed).
C13_SteadyAfterFirstResponse ==
  [][(HistoryTick /\ accepted)
       => (handlers' = handlers /\ btn_visible' = btn_visible /\ first_load' = first_load)]_vars

\* C13 as amended: once a status true response with a non-empty log payload
\* has been processed (log_backup is no longer ''), no later tick binds a
\* handler, shows the button or caps its batch: the rows a changed snapshot
\* adds are all its keys that the previous snapshot did not have, or stop at
\* an entry without from_.
C13_SteadyAfterFirstLog ==
  [][(HistoryTick /\ log_backup # EmptyString)
       => /\ handlers' = handlers
          /\ btn_visible' = btn_visible
          /\ first_load' = first_load
          /\ (last'.res.status /\ last'.changed /\ last'.res.imap_log.kind = "json")
               => LET delta == Range(last'.res.imap_log.keys) \ Range(log_backup.keys)
                      added == last'.added
                  IN \/ Range(added) = delta
                     \/ /\ added # <<>>
                        /\ added[Len(added)] \in noFrom
                        /\ Range(added) \subseteq delta]_vars

\* a tick after first load has rendered more rows than the cap allows
C13_Witness ==
  /\ page = "history"
  /\ last.op = "response"
  /\ Len(last.added) > RecentCap
  /\ first_load.done
  /\ Len(handlers) = 1

\* C14: a successful tick whose log payload equals the last accepted payload
\* is detected as unchanged and renders nothing.
C14_UnchangedPayloadRendersNothing ==
  [][(HistoryTick /\ last'.res.status /\ last'.res.imap_log = log_backup)
       => /\ ~last'.changed
          /\ ~last'.threw
          /\ last'.added = <<>>
          /\ rows' = rows
          /\ panels' = panels
          /\ log_backup' = log_backup]_vars

\* the same non-empty snapshot has come in again, on the third tick or later
C14_Witness ==
  /\ page = "history"
  /\ last.op = "response"
  /\ last.res.status
  /\ ~last.changed
  /\ last.res.imap_log.kind = "json"
  /\ last.res.imap_log.keys # <<>>
  /\ last.added = <<>>
  /\ rows # <<>>
  /\ ticks >= 3

\* C15: after every successful tick the "is running" indicator is true iff
\* the tick's status message is non-empty. Stated for well-formed snapshots
\* and for messages without surrounding blanks.
C15_RunningIffMessage ==
  (/\ page = "history"
   /\ last.op = "response"
   /\ last.res.status
   /\ last.res.imap_log.kind = "json"
   /\ Trim(last.res.user_status_msg) = last.res.user_status_msg)
    => (running <=> last.res.user_status_msg # "")

\* C16: the status display is rewritten on a tick iff the tick's status
\* message differs from the one of the last successful tick. Stated for
\* well-formed snapshots.
C16_StatusRewrittenIffChanged ==
  [][(HistoryTick /\ last'.res.status /\ last'.res.imap_log.kind = "json")
       => /\ last'.wrote <=> (user_status_backup # last'.res.user_status_msg)
          /\ last'.wrote => status_display' = last'.res.user_status_msg
          /\ ~last'.wrote => status_display' = status_display]_vars

NonIncreasing(s) == \A i, j \in 1..Len(s) : i < j => s[i] >= s[j]

\* C17: after every batch append the table shows all rows in descending
\* timestamp order. Stated for the sessions in which every entry carries
\* from_, once a batch append has run to its end.
C17_DisplayDescending ==
  (page = "history" /\ noFrom = {} /\ table_order = "col0_des")
    => NonIncreasing(DisplayOrder(rows, table_order))

\* C18: after every tick that received a response the baseline log_backup
\* equals that tick's log payload. Stated for status true responses that
\* carry a well-formed snapshot.
C18_BaselineFollowsEveryTick ==
  (/\ page = "history"
   /\ last.op = "response"
   /\ last.res.status
   /\ last.res.imap_log.kind = "json")
    => log_backup = last.res.imap_log

InternalFields == {"trigger", "error", "log", "timestamp", "type"}

\* C19: the object handed to the detail renderer for an entry holds none of
\* the internal fields and every other field of the entry.
C19_PanelsCarryNoInternalFields ==
  \A i \in 1..Len(panels) :
    /\ panels[i].fields \cap InternalFields = {}
    /\ panels[i].fields = EntryFields(panels[i].key) \ InternalFields

\* panels have been built for entries with different domain fields
C19_Witness ==
  /\ page = "history"
  /\ \E i \in 1..Len(panels) : {"from_", "subject", "folder"} \subseteq panels[i].fields
  /\ \E i \in 1..Len(panels) : {"from_", "subject", "flags"} \subseteq panels[i].fields

\* C20: every key of the last accepted snapshot is rendered or waits in the
\* remainder behind "load more"; after "load more" has been invoked every
\* such key is rendered.
C20_AcceptedKeysCovered ==
  (page = "history" /\ log_backup.kind = "json")
    => Range(log_backup.keys) \subseteq
         (Range(rows) \cup
            (IF clicks = 0
             THEN Range(first_load.snapshot) \ Range(first_load.added)
             ELSE {}))

\* the mode ids of the open tabs, left to right
TabIds == [i \in 1..Len(tabs) |-> tabs[i].id]

\* C21: in the editor view, closing a tab that was added with the "add tab"
\* control in this session and has not been saved by a successful
\* /run_mailbot since sends no /delete_mailbot_mode request; closing any
\* other tab sends exactly one such request, with that tab's mode id
C21_UnsavedCloseSendsNoDelete ==
  [][(page = "editor" /\ last'.op = "close") =>
       closed'.sent = IF closed'.tab.fresh THEN <<>> ELSE <<closed'.tab.id>>]_vars

\* C22: in the editor view, after any sequence of "add tab" and "close tab"
\* actions the mode ids of the open tabs are pairwise distinct
C22_OpenTabIdsDistinct == page = "editor" => NoDuplicates(TabIds)

====
